---- MODULE Spec2Model ----
(***************************************************************************)
(* Model of src/components/reading_text.py: the whitespace normalizer,     *)
(* the header/span extractor (HEADER_REGEX + extract_actions), the CSV     *)
(* row serializer (write_csv) and the pipeline main().                     *)
(*                                                                         *)
(* Text is a sequence of one-character strings.  Positions are 1-based;    *)
(* an "end" position is exclusive (the index just after the last matched   *)
(* character), so Len(t) + 1 is the end of the text (\Z).                  *)
(***************************************************************************)
EXTENDS Naturals, Sequences, FiniteSets

VARIABLES
    pc,          \* position of the running function (see the specifications)
    pdf_exists,  \* main: pdf_path.exists()
    pages,       \* main: what page.extract_text() gives per page (or NoText)
    text,        \* main / extract_actions: the local `text`
    rows,        \* main / extract_actions / write_csv: the list `rows`
    csv_file,    \* the file at csv_path: Absent, or its decoded characters
    s,           \* normalize_whitespace: the argument `s`
    result       \* normalize_whitespace: the returned string

vars == <<pc, pdf_exists, pages, text, rows, csv_file, s, result>>

----------------------------------------------------------------------------
(* Characters and the character classes the regular expressions use.       *)

Max(S) == CHOOSE x \in S : \A y \in S : y <= x

Min(S) == CHOOSE x \in S : \A y \in S : x <= y

\* [ \t\f\v] of WS; "\f" stands for both form feed and vertical tab.
HSpaceChars == {" ", "\t", "\f"}

\* \s of the re module and the whitespace str.strip() removes.
SpaceChars == HSpaceChars \cup {"\n", "\r"}

LowerLetters == <<"g", "o", "v", "e", "r", "n", "m", "a", "p", "s", "u", "x">>

UpperLetters == <<"G", "O", "V", "E", "R", "N", "M", "A", "P", "S", "U", "X">>

Range(f) == {f[i] : i \in DOMAIN f}

IsHSpace(c) == c \in HSpaceChars

IsSpace(c) == c \in SpaceChars

\* \d
IsDigit(c) == c \in {"0", "1", "2", "3", "4", "5", "6", "7", "8", "9"}

\* \w, which decides \b
IsWord(c) == c \in Range(LowerLetters) \cup Range(UpperLetters) \cup {"_"} \/ IsDigit(c)

\* str.upper() on one character
UpperChar(c) ==
    IF c \in Range(LowerLetters)
    THEN UpperLetters[CHOOSE i \in DOMAIN LowerLetters : LowerLetters[i] = c]
    ELSE c

\* str.upper()
Upper(t) == [i \in DOMAIN t |-> UpperChar(t[i])]

\* End of the maximal run of \s characters that starts at i.
RECURSIVE SpaceEnd(_, _)
SpaceEnd(t, i) ==
    IF i <= Len(t) /\ IsSpace(t[i]) THEN SpaceEnd(t, i + 1) ELSE i

\* End of the maximal run of [ \t\f\v] characters that starts at i.
RECURSIVE HSpaceEnd(_, _)
HSpaceEnd(t, i) ==
    IF i <= Len(t) /\ IsHSpace(t[i]) THEN HSpaceEnd(t, i + 1) ELSE i

\* End of the maximal run of \d characters that starts at i.
RECURSIVE DigitsEnd(_, _)
DigitsEnd(t, i) ==
    IF i <= Len(t) /\ IsDigit(t[i]) THEN DigitsEnd(t, i + 1) ELSE i

\* End of the maximal run of "\n" characters that starts at i.
RECURSIVE NewlineEnd(_, _)
NewlineEnd(t, i) ==
    IF i <= Len(t) /\ t[i] = "\n" THEN NewlineEnd(t, i + 1) ELSE i

----------------------------------------------------------------------------
(* normalize_whitespace                                                    *)

\* WS.sub(" ", s): every maximal run of [ \t\f\v]+ becomes one space.
RECURSIVE WsSubFrom(_, _)
WsSubFrom(t, i) ==
    IF i > Len(t) THEN <<>>
    ELSE IF IsHSpace(t[i]) THEN <<" ">> \o WsSubFrom(t, HSpaceEnd(t, i))
    ELSE <<t[i]>> \o WsSubFrom(t, i + 1)

WsSub(t) == WsSubFrom(t, 1)

\* NlMatchEnd as it would be for \n\s*?\n\s*?\n: the shortest match, which
\* leaves the newlines after the third where they are.
NlMatchEnd_Lazy(t, i) ==
    IF t[i] # "\n" THEN 0
    ELSE LET w == SpaceEnd(t, i + 1)
             J == {j \in (i + 1)..(w - 1) :
                      t[j] = "\n" /\ \E k \in (j + 1)..(w - 1) : t[k] = "\n"}
         IN  IF J = {} THEN 0
             ELSE LET j == Min(J)
                      k == Min({k \in (j + 1)..(w - 1) : t[k] = "\n"})
                  IN  k + 1

\* The end of the match of \n\s*\n\s*\n+ at i, or 0 when it does not match
\* there.  Both \s* are greedy: the first gives back as little as still
\* leaves a "\n", a whitespace run and a "\n"; so does the second; \n+ then
\* takes every "\n" that follows.
NlMatchEnd(t, i) ==
    IF t[i] # "\n" THEN 0
    ELSE LET w == SpaceEnd(t, i + 1)
             J == {j \in (i + 1)..(w - 1) :
                      t[j] = "\n" /\ \E k \in (j + 1)..(w - 1) : t[k] = "\n"}
         IN  IF J = {} THEN 0
             ELSE LET j == Max(J)
                      k == Max({k \in (j + 1)..(w - 1) : t[k] = "\n"})
                  IN  NewlineEnd(t, k)

\* re.sub(r"\n\s*\n\s*\n+", "\n\n", s): leftmost, non-overlapping matches.
RECURSIVE NlSubFrom(_, _)
NlSubFrom(t, i) ==
    IF i > Len(t) THEN <<>>
    ELSE LET e == NlMatchEnd(t, i)
         IN  IF e # 0 THEN <<"\n", "\n">> \o NlSubFrom(t, e)
             ELSE <<t[i]>> \o NlSubFrom(t, i + 1)

NlSub(t) == NlSubFrom(t, 1)

\* Strip as it would be with str.lstrip().
Strip_LeftOnly(t) ==
    LET keep == {i \in DOMAIN t : ~IsSpace(t[i])}
    IN  IF keep = {} THEN <<>> ELSE SubSeq(t, Min(keep), Len(t))

\* str.strip()
Strip(t) ==
    LET keep == {i \in DOMAIN t : ~IsSpace(t[i])}
    IN  IF keep = {} THEN <<>> ELSE SubSeq(t, Min(keep), Max(keep))

normalize_whitespace(t) == Strip(NlSub(WsSub(t)))

----------------------------------------------------------------------------
(* HEADER_REGEX and extract_actions                                        *)

\* (?P<pillar>GOVERN|MAP|MEASURE|MANAGE), in the order of the alternation.
Pillars ==
    << <<"G", "O", "V", "E", "R", "N">>,
       <<"M", "A", "P">>,
       <<"M", "E", "A", "S", "U", "R", "E">>,
       <<"M", "A", "N", "A", "G", "E">> >>

\* \b at the position before t[i]: exactly one side is a word character.
WordBoundary(t, i) ==
    LET before == i > 1 /\ i - 1 <= Len(t) /\ IsWord(t[i - 1])
        after == i >= 1 /\ i <= Len(t) /\ IsWord(t[i])
    IN  before # after

\* The alternative matches at i, letter case ignored (re.IGNORECASE).
PillarMatches(t, i, k) ==
    /\ i + Len(Pillars[k]) - 1 <= Len(t)
    /\ \A d \in 1..Len(Pillars[k]) : UpperChar(t[i + d - 1]) = Pillars[k][d]

\* End of the match of (GOVERN|MAP|MEASURE|MANAGE) at i, or 0.  No
\* alternative is a prefix of another, so at most one matches.
PillarEnd(t, i) ==
    LET K == {k \in DOMAIN Pillars : PillarMatches(t, i, k)}
    IN  IF K = {} THEN 0 ELSE i + Len(Pillars[Min(K)])

\* End of the match of \d+(?:\.\d+)* at i, or 0.  It is the longest one:
\* a shorter one is followed by a digit or by ".", never by \s or ":".
RECURSIVE IdEnd(_, _)
IdEnd(t, i) ==
    LET j == DigitsEnd(t, i)
    IN  IF j = i THEN 0
        ELSE IF j <= Len(t) /\ t[j] = "." /\ DigitsEnd(t, j + 1) > j + 1
             THEN IdEnd(t, j + 1)
             ELSE j

\* (GOVERN|MAP|MEASURE|MANAGE)\s+\d+(?:\.\d+)*\s*: at i, as the places
\* <<end of pillar, start of id, end of id, place of the colon>>, or <<>>.
HeaderAt(t, i) ==
    LET pe == PillarEnd(t, i)
        is == SpaceEnd(t, pe)
        ie == IdEnd(t, is)
        co == SpaceEnd(t, ie)
    IN  IF /\ pe # 0
           /\ is > pe
           /\ ie # 0
           /\ co <= Len(t)
           /\ t[co] = ":"
        THEN <<pe, is, ie, co>>
        ELSE <<>>

\* The lookahead (?= \s+\b(?:GOVERN|...)\s+\d+(?:\.\d+)*\s*: | \Z ) at e.
Lookahead(t, e) ==
    \/ LET j == SpaceEnd(t, e)
       IN  j > e /\ WordBoundary(t, j) /\ HeaderAt(t, j) # <<>>
    \/ e = Len(t) + 1

\* End of the lazy (?P<title>.+?) that starts at ts: the first place after at
\* least one character (any character: re.DOTALL) where the lookahead holds.
RECURSIVE TitleEnd(_, _)
TitleEnd(t, e) ==
    IF Lookahead(t, e) THEN e ELSE TitleEnd(t, e + 1)

\* What MatchAt gives where HEADER_REGEX does not match.
NoMatch ==
    [start |-> 0, pillarEnd |-> 0, idStart |-> 0, idEnd |-> 0, colon |-> 0,
     titleStart |-> 0, titleEnd |-> 0]

\* The match of HEADER_REGEX that starts at i, or NoMatch.  After the colon the
\* greedy \s* takes the whole whitespace run and gives characters back only
\* while no character is left for the title.
MatchAt(t, i) ==
    LET h == HeaderAt(t, i)
    IN  IF ~WordBoundary(t, i) \/ h = <<>> THEN NoMatch
        ELSE LET w == SpaceEnd(t, h[4] + 1)
                 T == {ts \in (h[4] + 1)..w : ts <= Len(t)}
             IN  IF T = {} THEN NoMatch
                 ELSE [start |-> i, pillarEnd |-> h[1], idStart |-> h[2],
                       idEnd |-> h[3], colon |-> h[4], titleStart |-> Max(T),
                       titleEnd |-> TitleEnd(t, Max(T) + 1)]

\* HEADER_REGEX.finditer(text) from pos: leftmost matches, each search
\* resuming where the previous match ended.
RECURSIVE FindIter(_, _)
FindIter(t, pos) ==
    IF pos > Len(t) THEN <<>>
    ELSE LET m == MatchAt(t, pos)
         IN  IF m.start = 0 THEN FindIter(t, pos + 1)
             ELSE <<m>> \o FindIter(t, m.titleEnd)

\* Row as it would be with the title stored as captured.
Row_RawTitle(t, m) ==
    [Pillar |-> Upper(SubSeq(t, m.start, m.pillarEnd - 1)),
     ID |-> SubSeq(t, m.idStart, m.idEnd - 1),
     Action |-> SubSeq(t, m.titleStart, m.titleEnd - 1)]

\* One row of extract_actions.
Row(t, m) ==
    [Pillar |-> Upper(SubSeq(t, m.start, m.pillarEnd - 1)),
     ID |-> SubSeq(t, m.idStart, m.idEnd - 1),
     Action |-> normalize_whitespace(SubSeq(t, m.titleStart, m.titleEnd - 1))]

extract_actions(t) ==
    LET ms == FindIter(t, 1)
    IN  [i \in DOMAIN ms |-> Row(t, ms[i])]

----------------------------------------------------------------------------
(* read_pdf_text                                                           *)

\* text.replace("\r", "\n")
ReplaceCr(t) == [i \in DOMAIN t |-> IF t[i] = "\r" THEN "\n" ELSE t[i]]

\* "\n\n".join(chunks)
RECURSIVE Join(_)
Join(chunks) ==
    IF chunks = <<>> THEN <<>>
    ELSE IF Len(chunks) = 1 THEN chunks[1]
    ELSE chunks[1] \o <<"\n", "\n">> \o Join(Tail(chunks))

\* Every page's text (an empty one where extract_text() gives nothing) with
\* "\r" replaced and stripped, the pages joined by a blank line.
read_pdf_text(pp) == Join([i \in DOMAIN pp |-> Strip(ReplaceCr(pp[i]))])

----------------------------------------------------------------------------
(* write_csv: csv.DictWriter with the default "excel" dialect, on a file   *)
(* opened with newline="" and encoding="utf-8-sig".                        *)

\* The byte-order mark utf-8-sig puts first, as one character of the file.
BOM == "BOM"

\* csv_path before anything is written, and a file left by an earlier run.
Absent == <<"ABSENT">>

OldFile == <<BOM, "o", "l", "d", "\r", "\n">>

fieldnames ==
    << <<"P", "i", "l", "l", "a", "r">>, <<"I", "D">>,
       <<"A", "c", "t", "i", "o", "n">> >>

\* NeedsQuote as it would be if line breaks did not count.
NeedsQuote_NoLineBreak(f) == \E i \in DOMAIN f : f[i] \in {",", "\""}

\* QUOTE_MINIMAL: a field is quoted when it holds the delimiter, the quote
\* character or a character of the line terminator "\r\n".
NeedsQuote(f) == \E i \in DOMAIN f : f[i] \in {",", "\"", "\r", "\n"}

\* doublequote=True: every quote character of a quoted field is written twice.
RECURSIVE DoubleQuotes(_)
DoubleQuotes(f) ==
    IF f = <<>> THEN <<>>
    ELSE (IF Head(f) = "\"" THEN <<"\"", "\"">> ELSE <<Head(f)>>)
         \o DoubleQuotes(Tail(f))

WriteField(f) ==
    IF NeedsQuote(f) THEN <<"\"">> \o DoubleQuotes(f) \o <<"\"">> ELSE f

\* writer.writerow: the fields joined by "," and ended by "\r\n".
WriteRow(fields) ==
    WriteField(fields[1]) \o <<",">> \o WriteField(fields[2]) \o <<",">>
        \o WriteField(fields[3]) \o <<"\r", "\n">>

RECURSIVE WriteRows(_)
WriteRows(rs) ==
    IF rs = <<>> THEN <<>>
    ELSE WriteRow(<<Head(rs).Pillar, Head(rs).ID, Head(rs).Action>>)
         \o WriteRows(Tail(rs))

\* The characters of the file write_csv leaves at csv_path.
write_csv(rs) == <<BOM>> \o WriteRow(fieldnames) \o WriteRows(rs)

----------------------------------------------------------------------------
(* Inputs                                                                  *)

\* Pieces a text is put together from: a header, a lower-case header with
\* line breaks inside that follows a line break and has content, whitespace
\* (space, tab, newline), content, punctuation, a pillar word without identifier, a lone colon.
Pieces ==
    { <<"M", "A", "P", " ", "1", ":">>,
      <<"\n", "g", "o", "v", "e", "r", "n", "\n", "2", ".", "1", " ", ":", " ", "x">>,
      <<" ">>, <<"\t">>, <<"\n">>, <<"x">>, <<",">>, <<"M", "A", "P">>, <<":">> }

\* Pieces of a page of the document; "\r" is what read_pdf_text replaces.
PagePieces ==
    { <<"M", "A", "P", " ", "1", ":">>,
      <<"\n", "g", "o", "v", "e", "r", "n", "\n", "2", ".", "1", " ", ":", " ", "x">>,
      <<" ">>, <<"\r">>, <<"x">>, <<"M", "A", "P">> }

\* Where one page of the document ends and the next begins.
PageBreak == <<"PAGEBREAK">>

\* Longest text of extract_actions, in pieces.
MaxPieces == 5

\* Longest document of main, in pieces and page breaks.
MaxDocPieces == 4

\* Longest argument of normalize_whitespace, in characters.
MaxNormLen == 6

\* Most rows write_csv is given, and the longest Action of a row.
MaxCsvRows == 2

MaxFieldLen == 1

SeqsUpTo(S, n) == UNION {[1..k -> S] : k \in 0..n}

RECURSIVE Concat(_)
Concat(q) == IF q = <<>> THEN <<>> ELSE Head(q) \o Concat(Tail(q))

\* The pages of a document given as pieces and page breaks.
RECURSIVE SplitPages(_)
SplitPages(q) ==
    IF q = <<>> THEN << <<>> >>
    ELSE LET rest == SplitPages(Tail(q))
         IN  IF Head(q) = PageBreak THEN << <<>> >> \o rest
             ELSE <<Head(q) \o Head(rest)>> \o Tail(rest)

NormChars == {" ", "\t", "\f", "\n", "\r", "a"}

CsvChars == {",", "\"", "\r", "\n", "a"}

CsvRecords ==
    [Pillar : {Pillars[1], Pillars[2]}, ID : {<<"1", ".", "1">>},
     Action : SeqsUpTo(CsvChars, MaxFieldLen)]

----------------------------------------------------------------------------
(* main                                                                    *)

Init ==
    /\ pc = "exists"
    /\ pdf_exists \in BOOLEAN
    /\ \E q \in SeqsUpTo(PagePieces \cup {PageBreak}, MaxDocPieces) :
          pages = IF pdf_exists THEN SplitPages(q) ELSE <<>>
    /\ text = <<>>
    /\ rows = <<>>
    /\ csv_file \in {Absent, OldFile}
    /\ s = <<>>
    /\ result = <<>>

\* if not pdf_path.exists(): raise FileNotFoundError
MainExists ==
    /\ pc = "exists"
    /\ pc' = IF pdf_exists THEN "read" ELSE "FileNotFoundError"
    /\ UNCHANGED <<pdf_exists, pages, text, rows, csv_file, s, result>>

\* text = read_pdf_text(pdf_path)
MainRead ==
    /\ pc = "read"
    /\ text' = read_pdf_text(pages)
    /\ pc' = "normalize"
    /\ UNCHANGED <<pdf_exists, pages, rows, csv_file, s, result>>

\* MainNormalize as it would be with the normalization left out.
MainNormalize_Skipped ==
    /\ pc = "normalize"
    /\ pc' = "extract"
    /\ UNCHANGED <<pdf_exists, pages, text, rows, csv_file, s, result>>

\* text = normalize_whitespace(text)
MainNormalize ==
    /\ pc = "normalize"
    /\ text' = normalize_whitespace(text)
    /\ pc' = "extract"
    /\ UNCHANGED <<pdf_exists, pages, rows, csv_file, s, result>>

\* rows = extract_actions(text)
MainExtract ==
    /\ pc = "extract"
    /\ rows' = extract_actions(text)
    /\ pc' = "check"
    /\ UNCHANGED <<pdf_exists, pages, text, csv_file, s, result>>

\* MainCheck as it would be without the empty-result check.
MainCheck_NoRaise ==
    /\ pc = "check"
    /\ pc' = "write"
    /\ UNCHANGED <<pdf_exists, pages, text, rows, csv_file, s, result>>

\* if not rows: raise RuntimeError
MainCheck ==
    /\ pc = "check"
    /\ pc' = IF rows = <<>> THEN "RuntimeError" ELSE "write"
    /\ UNCHANGED <<pdf_exists, pages, text, rows, csv_file, s, result>>

\* write_csv(rows, csv_path), then main returns
MainWrite ==
    /\ pc = "write"
    /\ csv_file' = write_csv(rows)
    /\ pc' = "returned"
    /\ UNCHANGED <<pdf_exists, pages, text, rows, s, result>>

Next ==
    \/ MainExists
    \/ MainRead
    \/ MainNormalize
    \/ MainExtract
    \/ MainCheck
    \/ MainWrite

Spec == Init /\ [][Next]_vars

----------------------------------------------------------------------------
(* normalize_whitespace on any string, and again on what it returned       *)

InitNorm ==
    /\ pc = "norm_call"
    /\ s \in SeqsUpTo(NormChars, MaxNormLen)
    /\ result = <<>>
    /\ pdf_exists = FALSE
    /\ pages = <<>>
    /\ text = <<>>
    /\ rows = <<>>
    /\ csv_file = Absent

NormCall ==
    /\ pc = "norm_call"
    /\ result' = normalize_whitespace(s)
    /\ pc' = "norm_return"
    /\ UNCHANGED <<pdf_exists, pages, text, rows, csv_file, s>>

NormAgain ==
    /\ pc = "norm_return"
    /\ s' = result
    /\ result' = normalize_whitespace(result)
    /\ pc' = "norm_again"
    /\ UNCHANGED <<pdf_exists, pages, text, rows, csv_file>>

NextNorm == NormCall \/ NormAgain

SpecNorm == InitNorm /\ [][NextNorm]_vars

----------------------------------------------------------------------------
(* extract_actions on any text                                             *)

InitExtract ==
    /\ pc = "extract_call"
    /\ \E q \in SeqsUpTo(Pieces, MaxPieces) : text = Concat(q)
    /\ rows = <<>>
    /\ pdf_exists = FALSE
    /\ pages = <<>>
    /\ csv_file = Absent
    /\ s = <<>>
    /\ result = <<>>

ExtractCall ==
    /\ pc = "extract_call"
    /\ rows' = extract_actions(text)
    /\ pc' = "extract_return"
    /\ UNCHANGED <<pdf_exists, pages, text, csv_file, s, result>>

NextExtract == ExtractCall

SpecExtract == InitExtract /\ [][NextExtract]_vars

----------------------------------------------------------------------------
(* write_csv on any list of rows                                           *)

InitCsv ==
    /\ pc = "csv_call"
    /\ rows \in SeqsUpTo(CsvRecords, MaxCsvRows)
    /\ csv_file \in {Absent, OldFile}
    /\ pdf_exists = FALSE
    /\ pages = <<>>
    /\ text = <<>>
    /\ s = <<>>
    /\ result = <<>>

CsvCall ==
    /\ pc = "csv_call"
    /\ csv_file' = write_csv(rows)
    /\ pc' = "csv_return"
    /\ UNCHANGED <<pdf_exists, pages, text, rows, s, result>>

NextCsv == CsvCall

SpecCsv == InitCsv /\ [][NextCsv]_vars

----------------------------------------------------------------------------
(* What the claims speak of                                                *)

\* The places where a header occurs in t: a category token (a whole word,
\* any letter case), whitespace, a dotted numeric identifier, optional
\* whitespace, a colon.
HeaderStarts(t) ==
    {i \in 1..Len(t) : WordBoundary(t, i) /\ HeaderAt(t, i) # <<>>}

RECURSIVE Sorted(_)
Sorted(S) == IF S = {} THEN <<>> ELSE <<Min(S)>> \o Sorted(S \ {Min(S)})

\* The header occurrences of t in document order.
Headers(t) == Sorted(HeaderStarts(t))

\* The start of the first header occurrence after place i, or the end of t.
NextHeader(t, i) ==
    LET later == {h \in HeaderStarts(t) : h > i}
    IN  IF later = {} THEN Len(t) + 1 ELSE Min(later)

\* The places where a category token stands as a whole word without being
\* the start of a header: no identifier follows it, or no colon.
BrokenHeaders(t) ==
    {i \in 1..Len(t) :
        /\ PillarEnd(t, i) # 0
        /\ WordBoundary(t, i)
        /\ WordBoundary(t, PillarEnd(t, i))
        /\ HeaderAt(t, i) = <<>>}

\* t with the category token of every header occurrence in upper case.
UpperHeaders(t) ==
    [i \in DOMAIN t |->
        IF \E h \in HeaderStarts(t) : h <= i /\ i < PillarEnd(t, h)
        THEN UpperChar(t[i])
        ELSE t[i]]

\* The number of "\n" in t[i..e-1].
NewlinesIn(t, i, e) == Cardinality({j \in i..(e - 1) : t[j] = "\n"})

\* Per maximal whitespace run of t between two other characters, in order,
\* the number of "\n" in it.
RECURSIVE InteriorRunsFrom(_, _)
InteriorRunsFrom(t, i) ==
    IF i > Len(t) THEN <<>>
    ELSE IF IsSpace(t[i])
         THEN LET e == SpaceEnd(t, i)
              IN  IF e > Len(t) THEN <<>>
                  ELSE <<NewlinesIn(t, i, e)>> \o InteriorRunsFrom(t, e)
         ELSE InteriorRunsFrom(t, i + 1)

InteriorRuns(t) == InteriorRunsFrom(t, SpaceEnd(t, 1))

NoEdgeSpace(d) == d = <<>> \/ (~IsSpace(d[1]) /\ ~IsSpace(d[Len(d)]))

\* No tab, form feed or vertical tab, and no two spaces side by side.
NoWideSpace(d) ==
    /\ \A i \in DOMAIN d : d[i] \notin {"\t", "\f"}
    /\ \A i \in 1..(Len(d) - 1) : ~(d[i] = " " /\ d[i + 1] = " ")

\* No three newlines that only whitespace separates.
NoTripleNewline(d) ==
    \A i \in DOMAIN d : IsSpace(d[i]) => NewlinesIn(d, i, SpaceEnd(d, i)) <= 2

\* Every whitespace character of d is a single space between two characters
\* that are not whitespace.
SingleSpaced(d) ==
    /\ NoEdgeSpace(d)
    /\ \A i \in DOMAIN d :
          IsSpace(d[i]) => d[i] = " " /\ ~IsSpace(d[i - 1]) /\ ~IsSpace(d[i + 1])

\* Reading a file back by the comma-delimiter and standard quoting rules:
\* the byte-order mark is dropped, a field in double quotes runs to its
\* closing quote with "" read as one quote, any other field runs to the next
\* comma or line break, and a record ends at a line break.
RECURSIVE ParseQuoted(_, _)
ParseQuoted(f, j) ==
    IF j > Len(f) THEN [val |-> <<>>, next |-> j]
    ELSE IF f[j] = "\""
         THEN IF j + 1 <= Len(f) /\ f[j + 1] = "\""
              THEN LET r == ParseQuoted(f, j + 2)
                   IN  [val |-> <<"\"">> \o r.val, next |-> r.next]
              ELSE [val |-> <<>>, next |-> j + 1]
         ELSE LET r == ParseQuoted(f, j + 1)
              IN  [val |-> <<f[j]>> \o r.val, next |-> r.next]

RECURSIVE ParsePlain(_, _)
ParsePlain(f, j) ==
    IF j > Len(f) \/ f[j] \in {",", "\r", "\n"} THEN [val |-> <<>>, next |-> j]
    ELSE LET r == ParsePlain(f, j + 1)
         IN  [val |-> <<f[j]>> \o r.val, next |-> r.next]

ParseField(f, i) ==
    IF i <= Len(f) /\ f[i] = "\"" THEN ParseQuoted(f, i + 1) ELSE ParsePlain(f, i)

LineEnd(f, i) ==
    IF i + 1 <= Len(f) /\ f[i] = "\r" /\ f[i + 1] = "\n" THEN i + 2 ELSE i + 1

RECURSIVE ParseRecord(_, _)
ParseRecord(f, i) ==
    LET fld == ParseField(f, i)
    IN  IF fld.next <= Len(f) /\ f[fld.next] = ","
        THEN LET r == ParseRecord(f, fld.next + 1)
             IN  [fields |-> <<fld.val>> \o r.fields, next |-> r.next]
        ELSE [fields |-> <<fld.val>>, next |-> LineEnd(f, fld.next)]

RECURSIVE ParseRecords(_, _)
ParseRecords(f, i) ==
    IF i > Len(f) THEN <<>>
    ELSE LET r == ParseRecord(f, i)
         IN  <<r.fields>> \o ParseRecords(f, r.next)

ParseCsv(f) ==
    IF f = Absent THEN <<>>
    ELSE ParseRecords(f, IF f # <<>> /\ f[1] = BOM THEN 2 ELSE 1)

\* The rows as the table a reader expects: the header row, then one row of
\* three fields per record.
Table(rs) ==
    <<fieldnames>> \o [i \in DOMAIN rs |-> <<rs[i].Pillar, rs[i].ID, rs[i].Action>>]

----------------------------------------------------------------------------
(* The claims                                                              *)

\* C1: a text with N header occurrences gives exactly N records, in document
\* order, and record i carries the category (in upper case) and the
\* identifier of header i.
C1_OneRecordPerHeader ==
    pc = "extract_return" =>
        LET hs == Headers(text)
        IN  /\ Len(rows) = Len(hs)
            /\ \A i \in DOMAIN rows :
                  LET h == HeaderAt(text, hs[i])
                  IN  /\ rows[i].Pillar = Upper(SubSeq(text, hs[i], h[1] - 1))
                      /\ rows[i].ID = SubSeq(text, h[2], h[3] - 1)

\* C2: the description of every record is normalize_whitespace of the text
\* from just after its header's colon to just before the next header
\* occurrence (or to the end of the text), and holds no header occurrence.
C2_DescriptionIsSpanToNextHeader ==
    pc = "extract_return" =>
        LET ms == FindIter(text, 1)
        IN  \A i \in DOMAIN rows :
               /\ rows[i].Action =
                     normalize_whitespace(
                         SubSeq(text, ms[i].colon + 1,
                                NextHeader(text, ms[i].colon) - 1))
               /\ HeaderStarts(rows[i].Action) = {}

\* C3: a text without header occurrence gives no record; a category token
\* that no identifier or no colon follows starts no record, lies in the
\* description span of the header occurrence before it, and lies in no
\* record when no header occurrence precedes it.
C3_OnlyWellFormedHeaders ==
    pc = "extract_return" =>
        LET ms == FindIter(text, 1)
        IN  /\ HeaderStarts(text) = {} => rows = <<>>
            /\ \A i \in DOMAIN ms : ms[i].start \in HeaderStarts(text)
            /\ \A b \in BrokenHeaders(text) :
                  LET before == {h \in HeaderStarts(text) : h < b}
                  IN  IF before = {}
                      THEN \A i \in DOMAIN ms :
                              ms[i].titleEnd <= b \/ ms[i].start > b
                      ELSE \E i \in DOMAIN ms :
                              /\ ms[i].start = Max(before)
                              /\ ms[i].titleStart <= b
                              /\ PillarEnd(text, b) <= ms[i].titleEnd

\* C4: normalize_whitespace returns its own result unchanged.
C4_NormalizeIdempotent == pc = "norm_again" => result = s

C4_Witness ==
    /\ pc = "norm_again"
    /\ \E i \in 1..(Len(s) - 1) : s[i] = "\n" /\ s[i + 1] = "\n"

\* C5: normalize_whitespace(s), for every s and with "" for "", has (a) no
\* tab, form feed or vertical tab and no two adjacent spaces, (b) no three
\* newlines that only whitespace separates, every whitespace run of s with
\* three or more newlines between two other characters having become one
\* with exactly two, and (c) no whitespace at either end.
C5_NormalizeResult ==
    pc = "norm_return" =>
        /\ s = <<>> => result = <<>>
        /\ NoWideSpace(result)
        /\ NoTripleNewline(result)
        /\ LET before == InteriorRuns(s)
               after == InteriorRuns(result)
           IN  /\ Len(after) = Len(before)
               /\ \A i \in DOMAIN before :
                     after[i] = IF before[i] >= 3 THEN 2 ELSE before[i]
        /\ NoEdgeSpace(result)

C5_Witness ==
    /\ pc = "norm_return"
    /\ \E i \in DOMAIN InteriorRuns(s) : InteriorRuns(s)[i] >= 3
    /\ IsSpace(s[1])

\* C6, as claimed: the whitespace inside every description is single spaces
\* only (so no newline), and no description has whitespace at either end.
C6_DescriptionSingleSpaced ==
    pc = "extract_return" => \A i \in DOMAIN rows : SingleSpaced(rows[i].Action)

\* C6, amended: every description is in the form normalize_whitespace gives:
\* no tab, form feed or vertical tab, no two adjacent spaces, no three
\* newlines that only whitespace separates, no whitespace at either end;
\* single newlines and one blank line are kept.
C6_DescriptionNormalized ==
    pc = "extract_return" =>
        \A i \in DOMAIN rows :
           /\ NoWideSpace(rows[i].Action)
           /\ NoTripleNewline(rows[i].Action)
           /\ NoEdgeSpace(rows[i].Action)

C6_Witness ==
    /\ pc = "extract_return"
    /\ Len(rows) >= 2
    /\ \E i \in DOMAIN rows : \E j \in DOMAIN rows[i].Action :
          rows[i].Action[j] = "\n"

\* C7: changing the letter case of the category tokens of the headers of a
\* text changes no record, and every Pillar is one of GOVERN, MAP, MEASURE,
\* MANAGE in upper case.
C7_CaseInsensitiveCanonical ==
    pc = "extract_return" =>
        /\ rows = extract_actions(UpperHeaders(text))
        /\ \A i \in DOMAIN rows : rows[i].Pillar \in Range(Pillars)

\* C8: main fails in two ways only.  It raises FileNotFoundError exactly
\* when the input path does not exist, straight from the existence check with
\* nothing read, normalized or extracted; it raises RuntimeError exactly when
\* the document gives zero records; otherwise it returns with the file
\* written, one row per record.  The file changes only in the write step,
\* after a non-empty extraction.
C8_State ==
    /\ pc \in {"exists", "read", "normalize", "extract", "check", "write",
              "FileNotFoundError", "RuntimeError", "returned"}
    /\ pc = "FileNotFoundError" => ~pdf_exists /\ text = <<>> /\ rows = <<>>
    /\ ~pdf_exists => pc \in {"exists", "FileNotFoundError"}
    /\ pc = "RuntimeError" =>
          extract_actions(normalize_whitespace(read_pdf_text(pages))) = <<>>
    /\ pc \in {"write", "returned"} =>
          /\ rows # <<>>
          /\ rows = extract_actions(normalize_whitespace(read_pdf_text(pages)))
    /\ pc = "returned" => Len(ParseCsv(csv_file)) = Len(rows) + 1

C8_Step ==
    /\ pc' = "FileNotFoundError" => pc = "exists"
    /\ csv_file' # csv_file =>
          pc = "write" /\ pc' = "returned" /\ pdf_exists /\ rows # <<>>

C9_CsvRoundTrip == pc = "csv_return" => ParseCsv(csv_file) = Table(rows)

C9_Witness ==
    /\ pc = "csv_return"
    /\ Len(rows) = 2
    /\ rows[1].Action = <<"\"">>
    /\ rows[2].Action = <<"\n">>
    /\ rows[1].Pillar # rows[2].Pillar

\* C10: in main, where extract_actions gets the normalized text, no record
\* has an empty description, and a header whose colon ends the text gives
\* no record.
C10_NoEmptyDescription ==
    pc \in {"check", "write", "returned", "RuntimeError"} =>
        /\ \A i \in DOMAIN rows : rows[i].Action # <<>>
        /\ \A h \in HeaderStarts(text) :
              HeaderAt(text, h)[4] = Len(text) =>
                  /\ Len(rows) < Cardinality(HeaderStarts(text))
                  /\ \A i \in DOMAIN FindIter(text, 1) :
                        FindIter(text, 1)[i].start # h

C10_Witness ==
    /\ pc = "returned"
    /\ \E h \in HeaderStarts(text) : HeaderAt(text, h)[4] = Len(text)

====
